---- MODULE Spec2Model ----
(***************************************************************************)
(* Magic Meme Maker: the Gemini generation client (services/geminiService, *)
(* src/unnamed/part_000), the image utilities (src/utils/imageUtils.ts)    *)
(* and the App component that drives them (src/unnamed/part_001).          *)
(*                                                                         *)
(* Strings are sequences of tokens.  A token is a TLA+ string standing for *)
(* a run of characters that the code never splits; user-typed text is a    *)
(* sequence of one-character tokens, fixed phrases of the code are single  *)
(* tokens.  String.prototype.includes is contiguous-subsequence search.    *)
(***************************************************************************)
EXTENDS Integers, Sequences, FiniteSets, TLC

VARIABLES
    input,            \* arguments of the function under study (NONE in the App)
    output,           \* its result (or NONE)
    originalImage,    \* App state, part_001:39
    memeText,         \* part_001:40
    promptDescription,\* part_001:41
    redrawIntensity,  \* part_001:42
    memeStyle,        \* part_001:43
    generatedImage,   \* part_001:44
    isLoading,        \* part_001:45
    error,            \* part_001:46
    uploads,          \* handleImageChange runs awaiting the file read / crop
    calls,            \* generateMemeImage invocations, in call order
    settled           \* the most recent settlement of a generateMemeImage promise

appVars == <<originalImage, memeText, promptDescription, redrawIntensity,
             memeStyle, generatedImage, isLoading, error, uploads>>
fnVars == <<input, output>>
svcVars == <<calls, settled>>
vars == <<input, output, originalImage, memeText, promptDescription,
          redrawIntensity, memeStyle, generatedImage, isLoading, error,
          uploads, calls, settled>>

\* "no value yet" for input, output and settled, which hold <<v>> once set
NONE == <<>>
\* null for originalImage, generatedImage and error: the strings the program
\* stores there are never empty, so the empty string stands for null
NULL == <<>>

----------------------------------------------------------------------------
(* Bounds of the model *)

MaxUserLen == 2       \* longest caption / description typed by the user
MaxTextLen == 2       \* longest text of a response text part
MaxParts == 2         \* most parts in the first candidate's content
MaxCandidates == 2    \* most candidates in a response
MaxDim == 8           \* largest image width / height
MaxCalls == 2         \* most Generate clicks in one behaviour
MaxUploads == 1       \* most file selections in one behaviour

(* Program constants *)

TimeoutMs == 120000
Tier1Max == 33
Tier2Max == 66
MinIntensity == 0
MaxIntensity == 100
DefaultIntensity == 50

----------------------------------------------------------------------------
(* Strings *)

SeqsUpTo(S, n) == UNION {[1..k -> S] : k \in 0..n}

\* s.includes(sub)
Includes(s, sub) ==
    \E i \in 0..(Len(s) - Len(sub)) :
        \A j \in 1..Len(sub) : s[i + j] = sub[j]

Whitespace == {" ", "\n"}

RECURSIVE TrimStart(_)
TrimStart(s) ==
    IF s # <<>> /\ Head(s) \in Whitespace THEN TrimStart(Tail(s)) ELSE s

RECURSIVE TrimEnd(_)
TrimEnd(s) ==
    IF s # <<>> /\ s[Len(s)] \in Whitespace
    THEN TrimEnd(SubSeq(s, 1, Len(s) - 1))
    ELSE s

\* s.trim(), for s a sequence of one-character tokens
Trim(s) == TrimEnd(TrimStart(s))

\* a string is truthy iff it is not empty
Truthy(s) == s # <<>>

----------------------------------------------------------------------------
(* geminiService: prompt construction *)

Styles == {"Enchanted", "Realistic", "Anime", "J-Art", "Exaggerated", "Comical"}

getStyleInstruction(style) ==
    CASE style = "Realistic" -> <<"in a photorealistic, cinematic style, as if it were a still from a live-action movie">>
      [] style = "Anime" -> <<"in a vibrant Japanese anime style, with characteristic large eyes, expressive features, and dynamic lines">>
      [] style = "J-Art" -> <<"in a beautiful, painterly Japanese art style, similar to concept art for a fantasy JRPG">>
      [] style = "Exaggerated" -> <<"in a heavily exaggerated caricature style, amplifying the subject's expression and features for comedic effect">>
      [] style = "Comical" -> <<"in a goofy, comical cartoon style with bright colors and simplified, funny shapes">>
      [] OTHER -> <<"in the classic Disney animation style, reminiscent of films like 'The Little Mermaid' or 'Aladdin'">>

SubtleClause == <<"Subtly apply the style, making minimal changes to the original image's structure and preserving the subject's facial features as closely as possible.">>
BalancedClause == <<"Apply a balanced style, preserving the core facial features of the subject while clearly transforming the overall aesthetic.">>
HeavyClause == <<"Heavily redraw the image in the style, retaining only the most essential facial characteristics (like eye position and basic expression) while transforming everything else significantly.">>

getIntensityInstruction_OffByOne(intensity) ==
    IF intensity < Tier1Max THEN SubtleClause
    ELSE IF intensity < Tier2Max THEN BalancedClause
    ELSE HeavyClause

getIntensityInstruction(intensity) ==
    IF intensity <= Tier1Max THEN SubtleClause
    ELSE IF intensity <= Tier2Max THEN BalancedClause
    ELSE HeavyClause

CaptionOpen == "Finally, integrate the text \""
CaptionClose == "\" into the image using a prominent, stylized font that fits the chosen aesthetic."
DescriptionOpen == "Crucially, you must modify the subject's expression, pose, and the scene's atmosphere to visually represent the following description: \""
DescriptionClose == "\"."

CaptionClause(text) == <<CaptionOpen>> \o text \o <<CaptionClose>>
DescriptionClause(description) == <<DescriptionOpen>> \o description \o <<DescriptionClose>>

textInstruction_NoTrim(text) ==
    IF Truthy(text) THEN CaptionClause(text) ELSE <<>>

textInstruction(text) ==
    IF Truthy(Trim(text)) THEN CaptionClause(text) ELSE <<>>

descriptionInstruction(description) ==
    IF Truthy(Trim(description)) THEN DescriptionClause(description) ELSE <<>>

fullPrompt(text, description, intensity, style) ==
    <<"Your task is to create an image. Redraw the provided image ">>
    \o getStyleInstruction(style) \o <<". ">>
    \o descriptionInstruction(description) \o <<" ">>
    \o getIntensityInstruction(intensity) \o <<" ">>
    \o textInstruction(text)
    \o <<" The output must be the final image only, with no explanatory text.">>

----------------------------------------------------------------------------
(* imageUtils: cropImageToSquare *)

\* a JavaScript number n / 2, kept exact
Half(n) == [num |-> n, den |-> 2]

Min(a, b) == IF a <= b THEN a ELSE b

cropSize_Max(width, height) == IF width >= height THEN width ELSE height

\* Math.min(image.width, image.height)
cropSize(width, height) == Min(width, height)

\* canvas.toDataURL('image/png'): a canvas without pixels serialises to "data:,"
toDataURL(width, height, pixels) ==
    IF width = 0 \/ height = 0
    THEN <<"data:", ",">>
    ELSE <<"data:image/png;base64", ",", pixels>>

\* image: [name, decodes, width, height]; ctxOk: getContext('2d') is not null
cropImageToSquare(image, ctxOk) ==
    IF ~image.decodes
    THEN [kind |-> "reject", reason |-> "image.onerror"]
    ELSE LET size == cropSize(image.width, image.height) IN
         IF ~ctxOk
         THEN [kind |-> "reject", reason |-> "Could not get canvas context"]
         ELSE [kind |-> "resolve",
               canvas |-> [width |-> size, height |-> size],
               startX |-> Half(image.width - size),
               startY |-> Half(image.height - size),
               sWidth |-> size, sHeight |-> size,
               dx |-> 0, dy |-> 0, dWidth |-> size, dHeight |-> size,
               value |-> toDataURL(size, size, image.name)]

----------------------------------------------------------------------------
(* geminiService: errors and messages *)

\* new Error(message); any other thrown value has isError = FALSE
Err(message) == [isError |-> TRUE, message |-> message]
NonError == [isError |-> FALSE, message |-> <<>>]

TimedOut == <<"timed out">>

TimerError_Reworded(ms) ==
    Err(<<"Request exceeded ", ToString(ms \div 1000), " seconds.">>)

\* withTimeout's rejection: `Request timed out after ${ms / 1000} seconds.`
TimerError(ms) ==
    Err(<<"Request ">> \o TimedOut \o <<" after ", ToString(ms \div 1000), " seconds.">>)

TimeoutMessage ==
    <<"Image generation ">> \o TimedOut
    \o <<". The image may be too complex. Please try again with a different image.">>
ApiErrorPrefix == <<"API Error: ">>
UnknownMessage == <<"An unknown error occurred while calling the Gemini API.">>
RefusalPrefix == <<"Model returned text instead of an image: ">>
EmptyMessage == <<"No image data found in the API response.">>

----------------------------------------------------------------------------
(* geminiService: the response of generateContent *)

\* a part: inlineData is <<>> (absent) or <<[data, mimeType]>>; text is the
\* part's text, <<>> when absent or empty (both are falsy)
InlinePart(data, mimeType) ==
    [inlineData |-> <<[data |-> data, mimeType |-> mimeType]>>, text |-> <<>>]
TextPart(text) == [inlineData |-> <<>>, text |-> text]

\* the parts of the first candidate that has any, whichever candidate it is
FirstParts_AnyCandidate(response) ==
    IF response.candidates = <<>> THEN <<>>
    ELSE LET cs == response.candidates[1]
             has == {i \in 1..Len(cs) :
                        /\ cs[i].content # <<>>
                        /\ cs[i].content[1].parts # <<>>}
         IN IF has = {} THEN <<>>
            ELSE cs[CHOOSE i \in has : \A j \in has : i <= j].content[1].parts

\* response.candidates?.[0]?.content?.parts, as <<>> (undefined) or <<parts>>
FirstParts(response) ==
    IF /\ response.candidates # <<>>
       /\ response.candidates[1] # <<>>
       /\ response.candidates[1][1].content # <<>>
       /\ response.candidates[1][1].content[1].parts # <<>>
    THEN response.candidates[1][1].content[1].parts
    ELSE <<>>

\* the first index of parts where the part's field is truthy, 0 if none
RECURSIVE FindFrom(_, _, _)
FindFrom(parts, field, i) ==
    IF i > Len(parts) THEN 0
    ELSE IF parts[i][field] # <<>> THEN i
    ELSE FindFrom(parts, field, i + 1)

Find_Last(optParts, field) ==
    IF optParts = <<>> THEN <<>>
    ELSE LET hits == {i \in 1..Len(optParts[1]) : optParts[1][i][field] # <<>>}
         IN IF hits = {} THEN <<>>
            ELSE <<optParts[1][CHOOSE i \in hits : \A j \in hits : j <= i]>>

\* optParts?.find(part => part[field]), as <<>> (undefined) or <<part>>
Find(optParts, field) ==
    IF optParts = <<>> THEN <<>>
    ELSE LET i == FindFrom(optParts[1], field, 1)
         IN IF i = 0 THEN <<>> ELSE <<optParts[1][i]>>

Returned(value) == [kind |-> "return", value |-> <<value>>, thrown |-> <<>>]
Threw(e) == [kind |-> "throw", value |-> <<>>, thrown |-> <<e>>]

\* part_000:122-137, the try block after the await
Extract(response) ==
    LET imagePart == Find(FirstParts(response), "inlineData")
        textPart == Find(FirstParts(response), "text")
    IN IF imagePart # <<>>
       THEN Returned([base64 |-> imagePart[1].inlineData[1].data,
                      mimeType |-> imagePart[1].inlineData[1].mimeType])
       ELSE IF textPart # <<>>
       THEN Threw(Err(RefusalPrefix \o textPart[1].text))
       ELSE Threw(Err(EmptyMessage))

\* part_000:139-148, the catch block: the Error that generateMemeImage throws
Normalize(e) ==
    IF e.isError
    THEN IF Includes(e.message, TimedOut)
         THEN Err(TimeoutMessage)
         ELSE Err(ApiErrorPrefix \o e.message)
    ELSE Err(UnknownMessage)

Resolved(value) == [state |-> "resolved", value |-> <<value>>, reason |-> <<>>]
Rejected(e) == [state |-> "rejected", value |-> <<>>, reason |-> <<e>>]
Pending == [state |-> "pending", value |-> <<>>, reason |-> <<>>]

\* the promise generateMemeImage returns, once withTimeout has settled as wt
Outcome(wt) ==
    IF wt.state = "rejected"
    THEN Rejected(Normalize(wt.reason[1]))
    ELSE LET x == Extract(wt.value[1])
         IN IF x.kind = "return"
            THEN Resolved(x.value[1])
            ELSE Rejected(Normalize(x.thrown[1]))

----------------------------------------------------------------------------
(* The files the user can pick *)

File(name, readable, decodes, width, height) ==
    [name |-> name, readable |-> readable, decodes |-> decodes,
     width |-> width, height |-> height]

Files ==
    {File("A", TRUE, TRUE, 3, 2),
     File("B", TRUE, TRUE, 2, 2),
     File("Z", TRUE, TRUE, 0, 2),        \* decodes, but has no pixels
     File("corrupt", TRUE, FALSE, 0, 0),
     File("unreadable", FALSE, FALSE, 0, 0)}

\* imageUtils.ts:6-15: the FileReader resolves with the file's data URL or
\* rejects; the data URL is kept as the decoded image it stands for
fileToDataUrl(file) ==
    IF file.readable
    THEN [kind |-> "resolve",
          value |-> [name |-> file.name, decodes |-> file.decodes,
                     width |-> file.width, height |-> file.height]]
    ELSE [kind |-> "reject", value |-> <<>>]

----------------------------------------------------------------------------
(* The App component's initial state, part_001:39-47 *)

AppInit ==
    /\ originalImage = NULL
    /\ memeText = <<>>
    /\ promptDescription = <<>>
    /\ redrawIntensity = DefaultIntensity
    /\ memeStyle = "Enchanted"
    /\ generatedImage = NULL
    /\ isLoading = FALSE
    /\ error = NULL
    /\ uploads = [f \in Files |-> 0]

SvcInit ==
    /\ calls = <<>>
    /\ settled = NONE

----------------------------------------------------------------------------
(* getIntensityInstruction applied to every slider position *)

InitIntensity ==
    /\ input \in [intensity : MinIntensity..MaxIntensity]
    /\ output = NONE
    /\ AppInit /\ SvcInit

ApplyIntensity ==
    /\ output = NONE
    /\ output' = <<getIntensityInstruction(input.intensity)>>
    /\ UNCHANGED <<input, appVars, svcVars>>

NextIntensity == ApplyIntensity
SpecIntensity == InitIntensity /\ [][NextIntensity]_vars

(* The prompt built by generateMemeImage for every caption and description *)

UserChars == {" ", "\n", "x"}
UserTexts == SeqsUpTo(UserChars, MaxUserLen)
SampleIntensities == {MinIntensity, Tier1Max, Tier2Max, MaxIntensity}
SampleStyles == Styles \cup {"Unknown"}

InitPrompt ==
    /\ input \in [memeText : UserTexts, description : UserTexts,
                  redrawIntensity : SampleIntensities, style : SampleStyles]
    /\ output = NONE
    /\ AppInit /\ SvcInit

ApplyPrompt ==
    /\ output = NONE
    /\ output' = <<fullPrompt(input.memeText, input.description,
                              input.redrawIntensity, input.style)>>
    /\ UNCHANGED <<input, appVars, svcVars>>

NextPrompt == ApplyPrompt
SpecPrompt == InitPrompt /\ [][NextPrompt]_vars

(* cropImageToSquare applied to every image size *)

InitCrop ==
    /\ input \in [image : [name : {"A"}, decodes : BOOLEAN,
                           width : 0..MaxDim, height : 0..MaxDim],
                  ctxOk : BOOLEAN]
    /\ output = NONE
    /\ AppInit /\ SvcInit

ApplyCrop ==
    /\ output = NONE
    /\ output' = <<cropImageToSquare(input.image, input.ctxOk)>>
    /\ UNCHANGED <<input, appVars, svcVars>>

NextCrop == ApplyCrop
SpecCrop == InitCrop /\ [][NextCrop]_vars

----------------------------------------------------------------------------
(* geminiService: generateMemeImage and withTimeout as processes.

   calls[i] is the i-th invocation of generateMemeImage:
     requests  the generateContent requests it has issued, in order
     ext       the generateContent promise: "pending", "fulfilled", "rejected"
     timer     withTimeout's timer: "armed", "fired", "cleared"
     wt        the promise withTimeout returns
     promise   the promise generateMemeImage returns
   A promise settles once: settling a settled promise changes nothing.
   The callbacks of a settling promise run as microtasks of the same task,
   so each action below runs the whole chain up to generateMemeImage's
   caller. *)

ModelId == "gemini-2.5-flash-image-preview"

\* part_000:99-117, the argument of ai.models.generateContent, as the message
\* in flight.  Its text part is fullPrompt(memeText, description,
\* redrawIntensity, style), a function of the arguments alone that nothing
\* reads back after the dispatch; the message keeps the image part.
Request(args) ==
    [model |-> ModelId,
     data |-> args.base64ImageData,
     mimeType |-> args.mimeType,
     responseModalities |-> <<"IMAGE", "TEXT">>]

\* the outbound requests one invocation issues
Dispatch(args) == <<Request(args)>>

\* part_000:83-120 up to the await: the synchronous part of generateMemeImage
NewCall(args) ==
    [requests |-> Dispatch(args),
     ext |-> "pending",
     timer |-> "armed",
     wt |-> Pending,
     promise |-> Pending]

clearTimeout(timer) == IF timer = "armed" THEN "cleared" ELSE timer

SettleWith_Retry(call, wt) ==
    IF call.wt.state # "pending" THEN call
    ELSE IF Outcome(wt).state = "rejected" /\ Len(call.requests) < 2
    THEN [call EXCEPT !.requests = Append(@, @[1]), !.ext = "pending",
                      !.timer = "armed"]
    ELSE [call EXCEPT !.wt = wt, !.promise = Outcome(wt)]

SettleWith_Overwrite(call, wt) ==
    [call EXCEPT !.wt = wt, !.promise = Outcome(wt)]

\* resolve(value) / reject(reason) of withTimeout's promise, and with it the
\* rest of generateMemeImage
SettleWith(call, wt) ==
    IF call.wt.state # "pending" THEN call
    ELSE [call EXCEPT !.wt = wt, !.promise = Outcome(wt)]

\* part_000:75-120: a call of generateMemeImage runs up to its await
generateMemeImage(args) == calls' = Append(calls, NewCall(args))

\* part_000:20-23: generateContent fulfils with response r
OnFulfil(call, r) ==
    SettleWith([call EXCEPT !.ext = "fulfilled", !.timer = clearTimeout(@)],
               Resolved(r))

\* part_000:24-27: generateContent rejects with e
OnReject(call, e) ==
    SettleWith([call EXCEPT !.ext = "rejected", !.timer = clearTimeout(@)],
               Rejected(e))

\* part_000:15-17: the timer fires after TimeoutMs
OnTimer(call) ==
    SettleWith([call EXCEPT !.timer = "fired"], Rejected(TimerError(TimeoutMs)))

\* the record of a settlement: what caused it and what the caller got
Settlement(i, cause, response, failure, promise) ==
    <<[id |-> i, cause |-> cause, response |-> response, failure |-> failure,
       promise |-> promise]>>

\* settled after calls[i] became c
Observe(i, c, cause, response, failure) ==
    IF calls[i].promise.state = "pending" /\ c.promise.state # "pending"
    THEN Settlement(i, cause, response, failure, c.promise)
    ELSE settled

----------------------------------------------------------------------------
(* What generateContent can answer *)

TextTokens == {"sorry", "timed out"}
Texts == SeqsUpTo(TextTokens, MaxTextLen)
InlineData == {<<<<"AAAA">>, "image/png">>, <<<<"BBBB">>, "image/jpeg">>}
Parts == {InlinePart(d[1], d[2]) : d \in InlineData} \cup {TextPart(t) : t \in Texts}

Candidate(optContent) == [content |-> optContent]
Content(optParts) == [parts |-> optParts]

FirstCandidates ==
    {Candidate(<<>>), Candidate(<<Content(<<>>)>>)}
    \cup {Candidate(<<Content(<<ps>>)>>) : ps \in SeqsUpTo(Parts, MaxParts)}
LaterCandidates ==
    {Candidate(<<>>),
     Candidate(<<Content(<<<<InlinePart(<<"BBBB">>, "image/jpeg")>>>>)>>),
     Candidate(<<Content(<<<<TextPart(<<"sorry">>)>>>>)>>)}

Responses ==
    {[candidates |-> <<>>], [candidates |-> << <<>> >>]}
    \cup {[candidates |-> << <<c>> \o rest >>] :
            c \in FirstCandidates,
            rest \in SeqsUpTo(LaterCandidates, MaxCandidates - 1)}

\* what generateContent can reject with: transport failures and a non-Error
Failures ==
    {Err(<<"Failed to fetch">>),
     Err(<<"504 upstream request ">> \o TimedOut),
     NonError}

----------------------------------------------------------------------------
(* One invocation of generateMemeImage, with every response and failure *)

SvcArgs ==
    [base64ImageData : {<<"AAAA">>}, mimeType : {"image/png"},
     memeText : {<<>>, <<"x">>}, description : {<<>>},
     redrawIntensity : {DefaultIntensity}, style : {"Anime"}]

InitService ==
    /\ input \in SvcArgs
    /\ output = NONE
    /\ AppInit /\ SvcInit

SvcCall ==
    /\ calls = <<>>
    /\ generateMemeImage(input)
    /\ UNCHANGED <<settled, fnVars, appVars>>

SvcFulfil ==
    \E i \in DOMAIN calls :
        /\ calls[i].ext = "pending"
        /\ \E r \in Responses :
              /\ calls' = [calls EXCEPT ![i] = OnFulfil(calls[i], r)]
              /\ settled' = Observe(i, OnFulfil(calls[i], r), "response", <<r>>, <<>>)
        /\ UNCHANGED <<fnVars, appVars>>

SvcReject ==
    \E i \in DOMAIN calls :
        /\ calls[i].ext = "pending"
        /\ \E e \in Failures :
              /\ calls' = [calls EXCEPT ![i] = OnReject(calls[i], e)]
              /\ settled' = Observe(i, OnReject(calls[i], e), "failure", <<>>, <<e>>)
        /\ UNCHANGED <<fnVars, appVars>>

SvcTimer ==
    \E i \in DOMAIN calls :
        /\ calls[i].timer = "armed"
        /\ calls' = [calls EXCEPT ![i] = OnTimer(calls[i])]
        /\ settled' = Observe(i, OnTimer(calls[i]), "timer", <<>>, <<>>)
        /\ UNCHANGED <<fnVars, appVars>>

NextService == SvcCall \/ SvcFulfil \/ SvcReject \/ SvcTimer
SpecService == InitService /\ [][NextService]_vars
\* a timer that is armed fires unless it is cleared first
FairSpecService == SpecService /\ WF_vars(SvcTimer)

----------------------------------------------------------------------------
(* The App component, part_001:38-121, with the event loop around it.

   React renders between events, so a handler sees the state the previous
   events left and the Generate button is enabled or disabled by it. *)

\* s.split(',')[1]: the tokens between the first and the second ",", <<>> when
\* there are none (undefined and "" are both falsy)
RECURSIVE UpToComma(_)
UpToComma(s) ==
    IF s = <<>> \/ Head(s) = "," THEN <<>>
    ELSE <<Head(s)>> \o UpToComma(Tail(s))

RECURSIVE AfterComma(_)
AfterComma(s) ==
    IF s = <<>> THEN <<>>
    ELSE IF Head(s) = "," THEN Tail(s)
    ELSE AfterComma(Tail(s))

SplitSecond(s) == UpToComma(AfterComma(s))

ReadCropFailed == <<"Failed to read and crop image file.">>
PleaseUpload == <<"Please upload an image to begin the magic.">>
InvalidDataUrl == Err(<<"Invalid image data URL.">>)
GenerationFailed == <<"Generation failed: ">>
UnknownGenerationError == <<"An unknown error occurred during image generation.">>

UploadCount == uploads[File("A", TRUE, TRUE, 3, 2)] + uploads[File("B", TRUE, TRUE, 2, 2)]
               + uploads[File("Z", TRUE, TRUE, 0, 2)]
               + uploads[File("corrupt", TRUE, FALSE, 0, 0)]
               + uploads[File("unreadable", FALSE, FALSE, 0, 0)]

\* part_001:57-59: the user picks a file; the read and the crop are pending
SelectFile(f) ==
    /\ UploadCount < MaxUploads
    /\ uploads' = [uploads EXCEPT ![f] = @ + 1]
    /\ UNCHANGED <<originalImage, memeText, promptDescription, redrawIntensity,
                   memeStyle, generatedImage, isLoading, error, svcVars, fnVars>>

\* part_001:60-68: the read and the crop of one picked file have finished
handleImageChange(f, ctxOk) ==
    /\ uploads[f] > 0
    /\ uploads' = [uploads EXCEPT ![f] = @ - 1]
    /\ LET dataUrl == fileToDataUrl(f)
           cropped == IF dataUrl.kind = "resolve"
                      THEN cropImageToSquare(dataUrl.value, ctxOk)
                      ELSE [kind |-> "reject"]
       IN IF cropped.kind = "resolve"
          THEN /\ originalImage' = cropped.value
               /\ generatedImage' = NULL
               /\ error' = NULL
          ELSE /\ error' = ReadCropFailed
               /\ UNCHANGED <<originalImage, generatedImage>>
    /\ UNCHANGED <<memeText, promptDescription, redrawIntensity, memeStyle,
                   isLoading, svcVars, fnVars>>

\* part_001:163, 174, 190, 213: the input controls
AppTexts == {<<>>, <<"x">>}
AppIntensities == {DefaultIntensity, MaxIntensity}
AppStyles == {"Enchanted", "Anime"}

setPromptDescription(t) ==
    /\ promptDescription' = t
    /\ UNCHANGED <<originalImage, memeText, redrawIntensity, memeStyle,
                   generatedImage, isLoading, error, uploads, svcVars, fnVars>>

setMemeText(t) ==
    /\ memeText' = t
    /\ UNCHANGED <<originalImage, promptDescription, redrawIntensity, memeStyle,
                   generatedImage, isLoading, error, uploads, svcVars, fnVars>>

setMemeStyle(k) ==
    /\ memeStyle' = k
    /\ UNCHANGED <<originalImage, memeText, promptDescription, redrawIntensity,
                   generatedImage, isLoading, error, uploads, svcVars, fnVars>>

setRedrawIntensity(v) ==
    /\ redrawIntensity' = v
    /\ UNCHANGED <<originalImage, memeText, promptDescription, memeStyle,
                   generatedImage, isLoading, error, uploads, svcVars, fnVars>>

GenerateDisabled_IgnoresLoading == originalImage = NULL

\* part_001:227: disabled={isLoading || !originalImage}
GenerateDisabled == isLoading \/ originalImage = NULL

\* part_001:72-95: handleGenerate up to its await
handleGenerate ==
    IF originalImage = NULL
    THEN /\ error' = PleaseUpload
         /\ UNCHANGED <<generatedImage, isLoading, calls>>
    ELSE LET base64Data == SplitSecond(originalImage)
         IN IF base64Data = <<>>
            THEN \* the throw is caught at once: catch and finally run
                 /\ error' = GenerationFailed \o InvalidDataUrl.message
                 /\ generatedImage' = NULL
                 /\ isLoading' = FALSE
                 /\ UNCHANGED calls
            ELSE /\ isLoading' = TRUE
                 /\ error' = NULL
                 /\ generatedImage' = NULL
                 /\ generateMemeImage(
                       [base64ImageData |-> base64Data,
                        mimeType |-> "image/png",
                        memeText |-> memeText,
                        description |-> promptDescription,
                        redrawIntensity |-> redrawIntensity,
                        style |-> memeStyle])

\* part_001:225-231: a click on the Generate button
ClickGenerate ==
    /\ ~GenerateDisabled
    /\ Len(calls) < MaxCalls
    /\ handleGenerate
    /\ UNCHANGED <<originalImage, memeText, promptDescription, redrawIntensity,
                   memeStyle, uploads, settled, fnVars>>

AfterAwait_NoFinally(p) ==
    IF p.state = "resolved"
    THEN /\ generatedImage' = <<"data:", p.value[1].mimeType, ";base64", ",">>
                              \o p.value[1].base64
         /\ isLoading' = FALSE
         /\ UNCHANGED error
    ELSE /\ error' = GenerationFailed
                     \o (IF p.reason[1].isError THEN p.reason[1].message
                         ELSE UnknownGenerationError)
         /\ UNCHANGED <<generatedImage, isLoading>>

\* part_001:96-102: handleGenerate after its await, when call i has settled
\* as promise p
AfterAwait(p) ==
    /\ IF p.state = "resolved"
       THEN /\ generatedImage' = <<"data:", p.value[1].mimeType, ";base64", ",">>
                                 \o p.value[1].base64
            /\ UNCHANGED error
       ELSE /\ error' = GenerationFailed
                        \o (IF p.reason[1].isError THEN p.reason[1].message
                            ELSE UnknownGenerationError)
            /\ UNCHANGED generatedImage
    /\ isLoading' = FALSE

\* a call whose promise and whose generateContent promise have both settled
\* has no callback left to run: the program holds nothing of it any more
RECURSIVE Live(_)
Live(cs) ==
    IF cs = <<>> THEN <<>>
    ELSE IF Head(cs).promise.state # "pending" /\ Head(cs).ext # "pending"
    THEN Live(Tail(cs))
    ELSE <<Head(cs)>> \o Live(Tail(cs))

\* call i becomes c: handleGenerate continues when that settled its promise
Continue(i, c) ==
    /\ calls' = Live([calls EXCEPT ![i] = c])
    /\ IF calls[i].promise.state = "pending" /\ c.promise.state # "pending"
       THEN AfterAwait(c.promise)
       ELSE UNCHANGED <<generatedImage, error, isLoading>>
    /\ UNCHANGED <<originalImage, memeText, promptDescription, redrawIntensity,
                   memeStyle, uploads, settled, fnVars>>

\* what generateContent can answer to the request of call c in the App
AppResponses(c) ==
    {[candidates |-> <<>>],
     [candidates |-> << <<Candidate(<<Content(<<<<TextPart(<<"sorry">>)>>>>)>>)>> >>],
     [candidates |-> << <<Candidate(<<Content(<<<<
          InlinePart(<<"meme of ">> \o c.requests[1].data, "image/png")>>>>)>>)>> >>]}
AppFailures == {Err(<<"Failed to fetch">>)}

AppFulfil ==
    \E i \in DOMAIN calls :
        /\ calls[i].ext = "pending"
        /\ \E r \in AppResponses(calls[i]) : Continue(i, OnFulfil(calls[i], r))

AppReject ==
    \E i \in DOMAIN calls :
        /\ calls[i].ext = "pending"
        /\ \E e \in AppFailures : Continue(i, OnReject(calls[i], e))

AppTimer ==
    \E i \in DOMAIN calls :
        /\ calls[i].timer = "armed"
        /\ Continue(i, OnTimer(calls[i]))

Upload == \E f \in Files : SelectFile(f)
UploadDone == \E f \in Files : \E ctxOk \in BOOLEAN : handleImageChange(f, ctxOk)
EditDescription == \E t \in AppTexts : setPromptDescription(t)
EditText == \E t \in AppTexts : setMemeText(t)
EditStyle == \E k \in AppStyles : setMemeStyle(k)
EditIntensity == \E v \in AppIntensities : setRedrawIntensity(v)

Init ==
    /\ input = NONE
    /\ output = NONE
    /\ AppInit /\ SvcInit

Next ==
    \/ Upload \/ UploadDone
    \/ EditDescription \/ EditText \/ EditStyle \/ EditIntensity
    \/ ClickGenerate
    \/ AppFulfil \/ AppReject \/ AppTimer

Spec == Init /\ [][Next]_vars
\* a timer that is armed fires unless it is cleared first
FairSpec == Spec /\ WF_vars(AppTimer)

----------------------------------------------------------------------------
(* C5: for every integer intensity in 0..100 the instruction is the subtle
   clause iff intensity is in [0,33], the balanced clause iff it is in
   [34,66] and the heavy-redraw clause iff it is in [67,100]. *)
C5_IntensityTiers ==
    output # NONE =>
        /\ (output[1] = SubtleClause) <=> (input.intensity \in 0..33)
        /\ (output[1] = BalancedClause) <=> (input.intensity \in 34..66)
        /\ (output[1] = HeavyClause) <=> (input.intensity \in 67..100)
        /\ output[1] \in {SubtleClause, BalancedClause, HeavyClause}

C5_Witness ==
    /\ output # NONE
    /\ output[1] = BalancedClause
    /\ input.intensity = 34

(* C6: the prompt contains the caption-insertion clause iff the caption is
   non-empty after trimming, and the description clause iff the description
   is non-empty after trimming, whatever the other inputs are. *)
C6_ClausesIffTrimmedNonEmpty ==
    output # NONE =>
        /\ Includes(output[1], CaptionClause(input.memeText))
             <=> (Trim(input.memeText) # <<>>)
        /\ Includes(output[1], <<CaptionOpen>>)
             <=> (Trim(input.memeText) # <<>>)
        /\ Includes(output[1], DescriptionClause(input.description))
             <=> (Trim(input.description) # <<>>)
        /\ Includes(output[1], <<DescriptionOpen>>)
             <=> (Trim(input.description) # <<>>)

C6_Witness ==
    /\ output # NONE
    /\ input.memeText = <<" ", "x">>
    /\ input.description = <<"\n", " ">>
    /\ Includes(output[1], <<CaptionOpen>>)
    /\ ~Includes(output[1], <<DescriptionOpen>>)

(* C7: for every image with positive width and height the output is a square
   of side min(width, height), read from the source region that starts at
   ((width - size)/2, (height - size)/2); the region lies inside the image
   and is the whole image when width equals height. *)
C7_CenterCrop ==
    (/\ output # NONE
     /\ input.image.decodes /\ input.ctxOk
     /\ input.image.width > 0 /\ input.image.height > 0) =>
        LET w == input.image.width
            h == input.image.height
            size == IF w <= h THEN w ELSE h
        IN /\ output[1].kind = "resolve"
           /\ output[1].canvas = [width |-> size, height |-> size]
           /\ output[1].sWidth = size /\ output[1].sHeight = size
           /\ output[1].dWidth = size /\ output[1].dHeight = size
           /\ output[1].dx = 0 /\ output[1].dy = 0
           /\ output[1].startX = [num |-> w - size, den |-> 2]
           /\ output[1].startY = [num |-> h - size, den |-> 2]
           \* 0 <= start and start + size <= dimension, in halves
           /\ 0 <= output[1].startX.num
           /\ output[1].startX.num + 2 * output[1].sWidth <= 2 * w
           /\ 0 <= output[1].startY.num
           /\ output[1].startY.num + 2 * output[1].sHeight <= 2 * h
           /\ (w = h) => /\ output[1].startX.num = 0 /\ output[1].startY.num = 0
                         /\ output[1].sWidth = w /\ output[1].sHeight = h

C7_Witness ==
    /\ output # NONE
    /\ input.image.width = 5 /\ input.image.height = 2
    /\ output[1].kind = "resolve"
    /\ output[1].startX = [num |-> 3, den |-> 2]
    /\ output[1].canvas.width = 2

----------------------------------------------------------------------------
(* Reading a response the way the claims speak of it *)

\* the parts of the first candidate, <<>> when it has none
PartsOfFirstCandidate(r) ==
    IF r.candidates = <<>> THEN <<>>
    ELSE IF r.candidates[1] = <<>> THEN <<>>
    ELSE LET c == Head(r.candidates[1])
         IN IF c.content = <<>> THEN <<>>
            ELSE IF c.content[1].parts = <<>> THEN <<>>
            ELSE c.content[1].parts[1]

InlineIndexes(r) ==
    {i \in DOMAIN PartsOfFirstCandidate(r) :
        PartsOfFirstCandidate(r)[i].inlineData # <<>>}
TextIndexes(r) ==
    {i \in DOMAIN PartsOfFirstCandidate(r) :
        PartsOfFirstCandidate(r)[i].text # <<>>}
Least(S) == CHOOSE i \in S : \A j \in S : i <= j

\* the last settlement came from a response that arrived before the timeout
ResponseArrived == settled # NONE /\ settled[1].cause = "response"

(* C1: a call whose timer fired while generateContent was still pending is
   rejected with the "Image generation timed out" message, and under
   fairness of the timer every call of generateMemeImage eventually settles,
   even when generateContent never does. *)
C1_TimeoutRejects ==
    /\ [](\A i \in DOMAIN calls :
            calls[i].timer = "fired" =>
                calls[i].promise = Rejected(Err(TimeoutMessage)))
    /\ [](calls # <<>> =>
            <>(\A i \in DOMAIN calls : calls[i].promise.state # "pending"))

C1_Witness ==
    \E i \in DOMAIN calls :
        /\ calls[i].timer = "fired"
        /\ calls[i].ext = "pending"
        /\ calls[i].promise = Rejected(Err(TimeoutMessage))

(* C2: a response whose first candidate has no inline-data part but has a
   non-empty text part makes generateMemeImage reject with a message that
   contains that text, whatever the text is. *)
C2_RefusalCarriesText ==
    (/\ ResponseArrived
     /\ InlineIndexes(settled[1].response[1]) = {}
     /\ TextIndexes(settled[1].response[1]) # {}) =>
        LET r == settled[1].response[1]
            text == PartsOfFirstCandidate(r)[Least(TextIndexes(r))].text
        IN /\ settled[1].promise.state = "rejected"
           /\ Includes(settled[1].promise.reason[1].message, text)

(* C3: a response that arrives before the timeout and whose first candidate
   has an inline-data part makes generateMemeImage resolve with the data and
   mimeType of the first such part, whatever text parts surround it and
   whatever the later candidates hold. *)
C3_FirstInlinePart ==
    (/\ ResponseArrived
     /\ InlineIndexes(settled[1].response[1]) # {}) =>
        LET r == settled[1].response[1]
            part == PartsOfFirstCandidate(r)[Least(InlineIndexes(r))]
        IN settled[1].promise =
              Resolved([base64 |-> part.inlineData[1].data,
                        mimeType |-> part.inlineData[1].mimeType])

C3_Witness ==
    /\ ResponseArrived
    /\ PartsOfFirstCandidate(settled[1].response[1])
         = <<InlinePart(<<"AAAA">>, "image/png"), InlinePart(<<"BBBB">>, "image/jpeg")>>
    /\ Len(settled[1].response[1].candidates[1]) = 2
    /\ settled[1].promise.state = "resolved"
    /\ settled[1].promise.value[1].base64 = <<"AAAA">>

(* C4: a failure caused by the timer is surfaced as the timed-out message;
   every other failure that is an Error is surfaced as "API Error: " followed
   by its message; a thrown non-Error is surfaced as the unknown-error
   message; no failure other than the timer's is surfaced as the timed-out
   message. *)
C4_FailureNormalization ==
    (settled # NONE /\ settled[1].promise.state = "rejected") =>
        LET msg == settled[1].promise.reason[1].message
            r == settled[1].response[1]
        IN /\ settled[1].cause = "timer" => msg = TimeoutMessage
           /\ settled[1].cause # "timer" => msg # TimeoutMessage
           /\ (settled[1].cause = "failure" /\ settled[1].failure[1].isError) =>
                 msg = ApiErrorPrefix \o settled[1].failure[1].message
           /\ (settled[1].cause = "failure" /\ ~settled[1].failure[1].isError) =>
                 msg = UnknownMessage
           /\ (settled[1].cause = "response" /\ TextIndexes(r) # {}) =>
                 msg = ApiErrorPrefix \o RefusalPrefix
                       \o PartsOfFirstCandidate(r)[Least(TextIndexes(r))].text
           /\ (settled[1].cause = "response" /\ TextIndexes(r) = {}) =>
                 msg = ApiErrorPrefix \o EmptyMessage

\* the calls of generateMemeImage that have neither resolved nor rejected
InFlight == {i \in DOMAIN calls : calls[i].promise.state = "pending"}

(* C8: in the application at most one generateMemeImage call is in flight at
   any time, whatever the user uploads, edits and clicks: no call starts
   while an earlier one has neither resolved nor rejected. *)
C8_OneCallInFlight == Cardinality(InFlight) <= 1

C8_Witness ==
    /\ Len(calls) = 2
    /\ calls[1].promise.state = "rejected" /\ calls[1].ext = "pending"
    /\ calls[2].promise.state = "pending"
    /\ isLoading
    /\ memeText = <<"x">>
    /\ UploadCount > 0

(* C9: every call of generateMemeImage issues exactly one generateContent
   request; a settled call never issues another one and never changes its
   outcome (nothing is retried), and every rejection carries a message. *)
C9_OneRequestNoRetry ==
    /\ [](\A i \in DOMAIN calls :
            /\ Len(calls[i].requests) = 1
            /\ calls[i].promise.state = "rejected" =>
                  /\ calls[i].promise.reason[1].isError
                  /\ calls[i].promise.reason[1].message # <<>>)
    /\ [][\A i \in DOMAIN calls :
            calls[i].promise.state # "pending" =>
                /\ calls'[i].promise = calls[i].promise
                /\ calls'[i].requests = calls[i].requests]_vars

C9_Witness ==
    \E i \in DOMAIN calls :
        /\ calls[i].promise = Rejected(Err(TimeoutMessage))
        /\ calls[i].ext = "rejected"
        /\ Len(calls[i].requests) = 1

(* C10: a response that arrives before the timeout and whose first candidate
   has neither an inline-data part nor a text part (no candidates, no
   content and no parts included) makes generateMemeImage reject with
   "API Error: No image data found in the API response." *)
C10_EmptyResponse ==
    (/\ ResponseArrived
     /\ InlineIndexes(settled[1].response[1]) = {}
     /\ TextIndexes(settled[1].response[1]) = {}) =>
        settled[1].promise = Rejected(Err(ApiErrorPrefix \o EmptyMessage))

C10_Witness ==
    /\ ResponseArrived
    /\ settled[1].response[1].candidates # <<>>
    /\ Len(settled[1].response[1].candidates[1]) = 2
    /\ Head(settled[1].response[1].candidates[1]).content = <<>>
    /\ settled[1].response[1].candidates[1][2].content # <<>>
    /\ settled[1].promise = Rejected(Err(ApiErrorPrefix \o EmptyMessage))

(* C11: withTimeout settles exactly once, with the outcome of whichever of
   generateContent and the timer settles first: when generateContent settles
   first the timer is cleared and never rejects, and when the timer fires
   first a later fulfilment or rejection of generateContent changes neither
   withTimeout's outcome nor the one generateMemeImage's caller sees. *)
C11_FirstSettlementWins ==
    /\ [](settled # NONE =>
            LET c == calls[settled[1].id] IN
            /\ settled[1].cause = "response" =>
                  c.wt = Resolved(settled[1].response[1]) /\ c.timer = "cleared"
            /\ settled[1].cause = "failure" =>
                  c.wt = Rejected(settled[1].failure[1]) /\ c.timer = "cleared"
            /\ settled[1].cause = "timer" =>
                  c.wt = Rejected(TimerError(TimeoutMs)) /\ c.timer = "fired"
            /\ c.promise = settled[1].promise)
    /\ [][\A i \in DOMAIN calls :
            calls[i].wt.state # "pending" =>
                /\ calls'[i].wt = calls[i].wt
                /\ calls'[i].promise = calls[i].promise
                /\ settled' = settled]_vars

C11_Witness ==
    /\ settled # NONE
    /\ settled[1].cause = "timer"
    /\ calls[1].ext = "fulfilled"
    /\ calls[1].timer = "fired"
    /\ calls[1].promise = Rejected(Err(TimeoutMessage))

(* C12: every run of handleGenerate that sets isLoading to true eventually
   sets it back to false, whether the call succeeds, is rejected or times
   out, and the data URL that cannot be split never leaves it true; the step
   that ends the run leaves generatedImage or error set, never neither. *)
C12_LoadingEnds ==
    /\ [](isLoading => <>(~isLoading))
    /\ [][(isLoading /\ ~isLoading') =>
            (generatedImage' # NULL \/ error' # NULL)]_vars
    /\ [][(~isLoading /\ originalImage # NULL
           /\ SplitSecond(originalImage) = <<>>) => ~isLoading']_vars

C12_Witness ==
    /\ ~isLoading
    /\ calls # <<>>
    /\ calls[1].ext = "pending"
    /\ error = GenerationFailed \o TimeoutMessage
    /\ generatedImage = NULL

(* C13: a generatedImage that is not null was generated from the current
   originalImage: once handleImageChange has replaced originalImage, no
   result made from an earlier image is shown, also when the upload happens
   while a generation is in flight. *)
C13_ResultMatchesOriginal ==
    generatedImage # NULL =>
        /\ originalImage # NULL
        /\ generatedImage = <<"data:", "image/png", ";base64", ",">>
                            \o <<"meme of ">> \o SplitSecond(originalImage)

====
